---- MODULE Spec2Model ----
(***************************************************************************)
(* Model of multiqc/plots/plotly/bar.py: plot() and BarPlot.__init__       *)
(* (normalisation of the categories, layout sizing, axis ranges, zero      *)
(* padding, percentages, log reordering), Dataset.create_figure and        *)
(* BarPlot.save_data_file.                                                 *)
(*                                                                         *)
(* Numbers.  A value of a category is a Python int or float, possibly      *)
(* float("nan").  A number is modelled as an exact fraction <<num, den>>   *)
(* in lowest terms with den > 0; NaN is <<0, 0>>.  Every comparison with   *)
(* NaN is false and every sum with NaN is NaN, as in Python.  Floating     *)
(* point rounding is not modelled.                                         *)
(***************************************************************************)
EXTENDS Integers, Sequences, FiniteSets, TLC

VARIABLES
    pconfig,        \* the plot configuration: stacking, add_pct_tab, add_log_tab
    cats_lists,     \* argument of plot(): one list of category records per tab
    samples_lists,  \* argument of plot(): one list of sample names per tab
    datasets,       \* self.datasets once Dataset.create has built them
    layout,         \* self.layout: height, barmode, legend.traceorder
    pc,             \* position inside BarPlot.__init__ ("done" once it returned)
    err,            \* the exception that aborted the construction, if any
    out,            \* the last figure or data file produced from the built plot
    trail,          \* history: the stages BarPlot.__init__ has run, in order
    built           \* history: self.datasets as they were when __init__ returned

vars == <<pconfig, cats_lists, samples_lists, datasets, layout, pc, err, out,
          trail, built>>

----------------------------------------------------------------------------
(* Bounds of the model *)

MaxDatasets == 2    \* tabs of a plot whose values are enumerated
MaxSamples == 2     \* samples of a dataset whose values are enumerated
MaxCats == 3        \* categories of a dataset whose values are enumerated
MaxCells == 3       \* values (categories x samples) enumerated over a whole plot
MaxNSamples == 31   \* samples of a dataset of constant values (sizing)
MaxNCats == 4       \* categories of a dataset of constant values (sizing)

----------------------------------------------------------------------------
(* Numbers *)

NaN == <<0, 0>>
Num(n) == <<n, 1>>
Zero == Num(0)
IsNaN(x) == x[2] = 0

IntAbs(n) == IF n < 0 THEN 0 - n ELSE n

RECURSIVE Gcd(_, _)
Gcd(a, b) == IF b = 0 THEN a ELSE Gcd(b, a % b)

\* n/d in lowest terms with a positive denominator, for d # 0
Frac(n, d) ==
    LET g == Gcd(IntAbs(n), IntAbs(d))
        sign == IF (n < 0) = (d < 0) THEN 1 ELSE -1
    IN  <<sign * (IntAbs(n) \div g), IntAbs(d) \div g>>

\* Python's a + b
Add(a, b) ==
    IF IsNaN(a) \/ IsNaN(b) THEN NaN
    ELSE Frac(a[1] * b[2] + b[1] * a[2], a[2] * b[2])

\* Python's a < b and a > b: false when either side is NaN
Lt(a, b) == ~IsNaN(a) /\ ~IsNaN(b) /\ a[1] * b[2] < b[1] * a[2]
Gt(a, b) == Lt(b, a)

\* Python's abs(a)
Abs(a) == <<IntAbs(a[1]), a[2]>>

\* Python's sum(xs): a left fold of + starting from 0
RECURSIVE SumFrom(_, _, _)
SumFrom(xs, i, acc) ==
    IF i > Len(xs) THEN acc ELSE SumFrom(xs, i + 1, Add(acc, xs[i]))
PySum(xs) == SumFrom(xs, 1, Zero)

\* Python's max(xs) for a non-empty xs: keeps the item seen so far unless the
\* next one compares greater
RECURSIVE MaxFrom(_, _, _)
MaxFrom(xs, i, cur) ==
    IF i > Len(xs) THEN cur
    ELSE MaxFrom(xs, i + 1, IF Gt(xs[i], cur) THEN xs[i] ELSE cur)
PyMax(xs) == MaxFrom(xs, 2, xs[1])

\* Python's min(xs) for a non-empty xs
RECURSIVE MinFrom(_, _, _)
MinFrom(xs, i, cur) ==
    IF i > Len(xs) THEN cur
    ELSE MinFrom(xs, i + 1, IF Lt(xs[i], cur) THEN xs[i] ELSE cur)
PyMin(xs) == MinFrom(xs, 2, xs[1])

----------------------------------------------------------------------------
(* Category records *)

\* A category name is a sequence of words (word codes > 0); BR is the "<br>"
\* that split_long_string/join puts between the lines of a long name.
BR == 0
WrapWidth == 2
NoName == <<>>          \* the record has no "name" key

RECURSIVE WrapFrom(_, _)
WrapFrom(name, i) ==
    IF i > Len(name) THEN <<>>
    ELSE (IF i > 1 /\ (i - 1) % WrapWidth = 0 THEN <<BR>> ELSE <<>>)
         \o <<name[i]>> \o WrapFrom(name, i + 1)

\* "<br>".join(split_long_string(name))
WrapName(name) == WrapFrom(name, 1)

\* spectra.html(color).rgb formatted with two decimals and joined by commas
KnownColors == {"#ff0000", "#00ff00", "blue"}
FormatColor(color) ==
    CASE color = "#ff0000" -> "1.00,0.00,0.00"
      [] color = "#00ff00" -> "0.00,1.00,0.00"
      [] color = "blue" -> "0.00,0.00,1.00"

NoPct == <<>>           \* the record has no "data_pct" key yet

\* the loop body without the test for the "name" key
CatErrorUnnamed(cat, samples) ==
    IF cat.color \notin KnownColors THEN "ValueError"
    ELSE IF Len(samples) # Len(cat.data) THEN "AssertionError"
    ELSE ""

\* The error the body of the loop of Dataset.create raises for one category,
\* "" when it raises none
CatError(cat, samples) ==
    IF cat.name = NoName THEN "ValueError"
    ELSE IF cat.color \notin KnownColors THEN "ValueError"
    ELSE IF Len(samples) # Len(cat.data) THEN "AssertionError"
    ELSE ""

\* The category as the loop of Dataset.create leaves it
CreateCat(cat) ==
    [name |-> WrapName(cat.name), color |-> FormatColor(cat.color),
     data |-> cat.data, data_pct |-> NoPct]

RECURSIVE CatsErrorFrom(_, _, _)
CatsErrorFrom(cats, samples, k) ==
    IF k > Len(cats) THEN ""
    ELSE IF CatError(cats[k], samples) # "" THEN CatError(cats[k], samples)
    ELSE CatsErrorFrom(cats, samples, k + 1)

\* The error Dataset.create raises, "" when it returns a dataset
DatasetError(cats, samples) == CatsErrorFrom(cats, samples, 1)

Unset == <<>>           \* an axis bound that has not been computed

\* Dataset.create: the BarPlot.Dataset built from one tab's input
DatasetCreate(cats, samples) ==
    [cats |-> [k \in 1..Len(cats) |-> CreateCat(cats[k])],
     samples |-> samples,
     xmin |-> Unset, xmax |-> Unset, pct_min |-> Unset]

RECURSIVE CreateErrorFrom(_, _, _)
CreateErrorFrom(cl, sl, d) ==
    IF d > Len(cl) THEN ""
    ELSE IF DatasetError(cl[d], sl[d]) # "" THEN DatasetError(cl[d], sl[d])
    ELSE CreateErrorFrom(cl, sl, d + 1)

\* The first error of the list comprehension over zip(datasets, cats, samples)
CreateError(cl, sl) == CreateErrorFrom(cl, sl, 1)

----------------------------------------------------------------------------
(* Layout sizing *)

IntMax(a, b) == IF a >= b THEN a ELSE b
IntMin(a, b) == IF a <= b THEN a ELSE b

RECURSIVE LenMaxFrom(_, _, _)
LenMaxFrom(ls, i, cur) ==
    IF i > Len(ls) THEN cur ELSE LenMaxFrom(ls, i + 1, IntMax(cur, Len(ls[i])))
\* max([len(l) for l in ls]) for a non-empty ls
MaxLen(ls) == LenMaxFrom(ls, 2, Len(ls[1]))

\* max_n_samples taken from the first tab alone
MaxNSamplesFirst(sl) == Len(sl[1])

\* plot(): max_n_samples
MaxNSamplesOf(sl) == MaxLen(sl)
\* BarPlot.__init__: max_n_cats
MaxNCatsOf(ds) == MaxLen([d \in 1..Len(ds) |-> ds[d].cats])

StackingAbsent == "<absent>"    \* pconfig has no "stacking" key
StackingNone == "<None>"        \* pconfig["stacking"] is None

\* the barmode read with pconfig.get("stacking"): a missing key counts as None
BarmodeByGet(cfg) ==
    IF cfg.stacking \in {"group", "normal", StackingNone, StackingAbsent}
    THEN "group" ELSE "relative"

\* BarPlot.__init__: the barmode
BarmodeOf(cfg) ==
    IF cfg.stacking # StackingAbsent
       /\ cfg.stacking \in {"group", "normal", StackingNone}
    THEN "group" ELSE "relative"

\* the allowance with the first threshold off by one
n_bars_to_size_late(n) ==
    IF n > 30 THEN 15
    ELSE IF n >= 20 THEN 20
    ELSE IF n >= 10 THEN 25
    ELSE IF n >= 5 THEN 30
    ELSE 35

n_bars_to_size(n) ==
    IF n >= 30 THEN 15
    ELSE IF n >= 20 THEN 20
    ELSE IF n >= 10 THEN 25
    ELSE IF n >= 5 THEN 30
    ELSE 35

\* BarPlot.__init__: n_bars
NBars(max_n_samples, max_n_cats, barmode) ==
    IF barmode = "group" THEN max_n_samples * max_n_cats ELSE max_n_samples

HEIGHT_PER_LEGEND_ITEM == 19
MIN_HEIGHT == 300
MAX_HEIGHT == 2560

\* the sizing without the cap of 660
PlotHeightUncapped(max_n_samples, max_n_cats, barmode) ==
    LET n_bars == NBars(max_n_samples, max_n_cats, barmode)
        height0 == n_bars * n_bars_to_size(n_bars)
        legend_height == HEIGHT_PER_LEGEND_ITEM * max_n_cats
        height1 == IntMax(height0, legend_height)
    IN  IntMax(MIN_HEIGHT, IntMin(MAX_HEIGHT, height1 + 140))

\* BarPlot.__init__: the height given to self.layout
PlotHeight(max_n_samples, max_n_cats, barmode) ==
    LET n_bars == NBars(max_n_samples, max_n_cats, barmode)
        height0 == n_bars * n_bars_to_size(n_bars)
        legend_height == HEIGHT_PER_LEGEND_ITEM * max_n_cats
        height1 == IntMax(height0, IntMax(height0, legend_height))
        height2 == IntMin(660, IntMax(height1, legend_height))
        height3 == height2 + 140
        height4 == IntMin(MAX_HEIGHT, height3)
    IN  IntMax(MIN_HEIGHT, height4)

\* legend.traceorder as set by self.layout.update
TraceOrderOf(barmode) == IF barmode # "group" THEN "normal" ELSE "reversed"

----------------------------------------------------------------------------
(* Axis ranges *)

\* [cat["data"][i] for cat in dataset.cats]
Row(cats, i) == [k \in 1..Len(cats) |-> cats[k].data[i]]
RowPct(cats, i) == [k \in 1..Len(cats) |-> cats[k].data_pct[i]]

Positive(xs) == [k \in 1..Len(xs) |-> IF Gt(xs[k], Zero) THEN xs[k] ELSE Zero]
Negative(xs) == [k \in 1..Len(xs) |-> IF Lt(xs[k], Zero) THEN xs[k] ELSE Zero]

\* xmax_cnt
XMax(ds, barmode) ==
    IF barmode = "group"
    THEN PyMax([i \in 1..Len(ds.samples) |-> PyMax(Row(ds.cats, i))])
    ELSE PyMax([i \in 1..Len(ds.samples) |-> PySum(Positive(Row(ds.cats, i)))])

\* xmin_cnt
XMin(ds, barmode) ==
    IF barmode = "group"
    THEN PyMin([i \in 1..Len(ds.samples) |-> PyMin(Row(ds.cats, i))])
    ELSE PyMin([i \in 1..Len(ds.samples) |-> PySum(Negative(Row(ds.cats, i)))])

\* max()/min() of an empty sequence raises ValueError
RangeError(ds, barmode) ==
    Len(ds.samples) = 0 \/ (barmode = "group" /\ Len(ds.cats) = 0)

\* The dataset with minallowed/maxallowed of its xaxis set
WithRange(ds, barmode) ==
    [ds EXCEPT !.xmin = XMin(ds, barmode), !.xmax = XMax(ds, barmode)]

----------------------------------------------------------------------------
(* Completion *)

Zeros(n) == [i \in 1..n |-> Zero]

\* cat["data"].extend([0] * (len(samples) - len(cat["data"]))) when shorter
ExpandCat(cat, n) ==
    IF Len(cat.data) < n
    THEN [cat EXCEPT !.data = cat.data \o Zeros(n - Len(cat.data))]
    ELSE cat

ExpandDataset(ds) ==
    [ds EXCEPT !.cats = [k \in 1..Len(ds.cats) |->
                            ExpandCat(ds.cats[k], Len(ds.samples))]]

----------------------------------------------------------------------------
(* Percentages *)

\* the contribution without abs()
ContributionSigned(val) == IF ~IsNaN(val) THEN val ELSE Zero

\* What one value adds to the total of its sample
Contribution(val) == IF ~IsNaN(val) THEN Abs(val) ELSE Zero

\* sums: one total per entry of the first category's data
Sums(cats) ==
    [i \in 1..Len(cats[1].data) |->
        PySum([k \in 1..Len(cats) |-> Contribution(cats[k].data[i])])]

\* float(val + 0.0) / float(sum_for_sample) * 100.0, or 0 for a zero total
Percent(val, sum_for_sample) ==
    IF sum_for_sample = Zero THEN Zero
    ELSE IF IsNaN(val) THEN NaN
    ELSE Frac(val[1] * 100 * sum_for_sample[2], val[2] * sum_for_sample[1])

PctCat(cat, sums) ==
    [cat EXCEPT !.data_pct =
        [i \in 1..Len(cat.data) |-> Percent(cat.data[i], sums[i])]]

\* dataset.pct_range["xaxis"]["min"]
PctMin(ds, barmode) ==
    IF barmode = "group"
    THEN PyMin([i \in 1..Len(ds.samples) |-> PyMin(RowPct(ds.cats, i))])
    ELSE PyMin([i \in 1..Len(ds.samples) |->
                   PySum(Negative(RowPct(ds.cats, i)))])

\* dataset.cats[0] raises IndexError for a dataset without categories
PctError(ds) == Len(ds.cats) = 0

PctDataset(ds, barmode) ==
    LET sums == Sums(ds.cats)
        withPct == [ds EXCEPT !.cats =
                       [k \in 1..Len(ds.cats) |-> PctCat(ds.cats[k], sums)]]
    IN  [withPct EXCEPT !.pct_min = PctMin(withPct, barmode)]

----------------------------------------------------------------------------
(* Log reordering: list.sort(key=...) as CPython runs it on a list of fewer *)
(* than 64 items: the leading run is found (and reversed when strictly     *)
(* descending), the other items are placed by binary insertion.  Only <    *)
(* on the keys is used.                                                    *)

\* key=lambda x: sum(x["data"])
SortKey(cat) == PySum(cat.data)

KeyLt(a, b) == Lt(SortKey(a), SortKey(b))

RECURSIVE RunEnd(_, _, _)
RunEnd(a, i, descending) ==
    IF i > Len(a) THEN Len(a)
    ELSE IF KeyLt(a[i], a[i - 1]) = descending THEN RunEnd(a, i + 1, descending)
    ELSE i - 1

Reverse(a) == [i \in 1..Len(a) |-> a[Len(a) + 1 - i]]

RECURSIVE InsertPos(_, _, _, _)
InsertPos(a, pivot, l, r) ==
    IF l >= r THEN l
    ELSE LET p == l + ((r - l) \div 2)
         IN  IF KeyLt(pivot, a[p]) THEN InsertPos(a, pivot, l, p)
             ELSE InsertPos(a, pivot, p + 1, r)

RECURSIVE BinarySort(_, _)
BinarySort(a, start) ==
    IF start > Len(a) THEN a
    ELSE LET pivot == a[start]
             l == InsertPos(a, pivot, 1, start)
             moved == [i \in 1..Len(a) |->
                          IF i < l \/ i > start THEN a[i]
                          ELSE IF i = l THEN pivot
                          ELSE a[i - 1]]
         IN  BinarySort(moved, start + 1)

\* cats.sort(key=lambda x: sum(x["data"]))
SortCats(cats) ==
    IF Len(cats) < 2 THEN cats
    ELSE LET descending == KeyLt(cats[2], cats[1])
             n == RunEnd(cats, 3, descending)
             run == IF descending
                    THEN Reverse(SubSeq(cats, 1, n)) \o SubSeq(cats, n + 1, Len(cats))
                    ELSE cats
         IN  BinarySort(run, n + 1)

SortDataset(ds) == [ds EXCEPT !.cats = SortCats(ds.cats)]

----------------------------------------------------------------------------
(* Products of the built plot *)

NoOut == [kind |-> "none", dataset |-> 0, content |-> <<>>]

\* Dataset.create_figure: one go.Bar trace per category
FigureOf(ds, is_pct) ==
    [k \in 1..Len(ds.cats) |->
        [y |-> ds.samples,
         x |-> IF is_pct THEN ds.cats[k].data_pct ELSE ds.cats[k].data,
         name |-> ds.cats[k].name,
         color |-> <<"rgb", ds.cats[k].color>>]]

\* The category whose value val_by_cat_by_sample[sample][name] holds: the
\* last one of that name
LastNamed(cats, name) ==
    CHOOSE k \in 1..Len(cats) :
        /\ cats[k].name = name
        /\ \A j \in (k + 1)..Len(cats) : cats[j].name # name

\* BarPlot.save_data_file: val_by_cat_by_sample, as rows <<sample, cells>>
\* with one cell <<category name, value>> per category name
DataFileOf(ds) ==
    [i \in 1..Len(ds.samples) |->
        <<ds.samples[i],
          [k \in 1..Len(ds.cats) |->
              <<ds.cats[k].name,
                ds.cats[LastNamed(ds.cats, ds.cats[k].name)].data[i]>>]>>]

----------------------------------------------------------------------------
(* The inputs *)

\* category values that are enumerated
Values == {Num(-1), Num(0), Num(1), NaN}

Palette == <<"#ff0000", "#00ff00", "blue">>
\* the k-th category of a tab: every second one has a name of three words
CatName(k) == IF k % 2 = 0 THEN <<k, k, k>> ELSE <<k>>
CatColor(k) == Palette[((k - 1) % 3) + 1]

SampleNames(n) == [j \in 1..n |-> j]

\* A shape <<c, n>> stands for a tab of c categories and n samples.
\* The tab of shape <<c, n>> whose values are vals[off + 1], vals[off + 2], ...
TabOf(c, n, vals, off) ==
    [cats |-> [k \in 1..c |->
                  [name |-> CatName(k), color |-> CatColor(k),
                   data |-> [i \in 1..n |-> vals[off + (k - 1) * n + i]]]],
     samples |-> SampleNames(n)]

RECURSIVE Cells(_, _)
\* the number of values in the first d tabs of a list of shapes
Cells(shapes, d) ==
    IF d = 0 THEN 0 ELSE Cells(shapes, d - 1) + shapes[d][1] * shapes[d][2]

TabsOf(shapes, vals) ==
    [d \in 1..Len(shapes) |->
        TabOf(shapes[d][1], shapes[d][2], vals, Cells(shapes, d - 1))]

Ones(shapes) == [j \in 1..Cells(shapes, Len(shapes)) |-> Num(1)]

\* all lists of at most nd shapes, each of 1..MaxCats categories and
\* 1..MaxSamples samples, with at most cells values in all
RECURSIVE ShapeLists(_, _)
ShapeLists(nd, cells) ==
    IF nd = 0 THEN {<<>>}
    ELSE {<<>>} \cup
         UNION { { <<sh>> \o rest : rest \in ShapeLists(nd - 1, cells - sh[1] * sh[2]) }
                 : sh \in { x \in (1..MaxCats) \X (1..MaxSamples) :
                              x[1] * x[2] <= cells } }

Plot(tabs, cfg) ==
    [cats |-> [d \in 1..Len(tabs) |-> tabs[d].cats],
     samples |-> [d \in 1..Len(tabs) |-> tabs[d].samples],
     cfg |-> cfg]

Stackings == {StackingAbsent, StackingNone, "group", "normal", "stacked"}

Configs(S) ==
    [stacking : S, add_pct_tab : BOOLEAN, add_log_tab : BOOLEAN]

\* plots of few values, every value enumerated
RichShapes == ShapeLists(MaxDatasets, MaxCells) \ {<<>>}
RichConfigs == Configs({"group", "stacked"})

\* plots of one large tab of constant values, alone or followed by a small one
PlainShapes ==
    { <<big>> \o rest : big \in (1..MaxNCats) \X (1..MaxNSamples),
                        rest \in {<<>>, << <<MaxCats, MaxSamples>> >>} }
PlainPlots ==
    { Plot(TabsOf(sh, Ones(sh)), cfg) :
        sh \in PlainShapes,
        cfg \in { c \in Configs(Stackings) : c.add_pct_tab = c.add_log_tab } }

\* plots with a tab that has no sample or no category
EmptyShapes ==
    { first \o <<sh>> : first \in ShapeLists(1, 1),
                        sh \in { x \in (0..MaxCats) \X (0..MaxSamples) :
                                   x[1] * x[2] = 0 } }
EmptyPlots ==
    { Plot(TabsOf(sh, Ones(sh)), cfg) : sh \in EmptyShapes, cfg \in Configs(Stackings) }

\* the malformed variants of a well-formed plot
Faults(p) ==
    LET places == { <<d, k>> : d \in 1..Len(p.cats), k \in 1..MaxCats }
        at == { q \in places : q[2] <= Len(p.cats[q[1]]) }
        data(q) == p.cats[q[1]][q[2]].data
    IN  { [p EXCEPT !.cats[q[1]][q[2]].name = NoName] : q \in at }
        \cup { [p EXCEPT !.cats[q[1]][q[2]].color = "notacolor"] : q \in at }
        \cup { [p EXCEPT !.cats[q[1]][q[2]].data = Append(data(q), Num(1))] : q \in at }
        \cup { [p EXCEPT !.cats[q[1]][q[2]].data = SubSeq(data(q), 1, Len(data(q)) - 1)]
                 : q \in at }
        \cup { [p EXCEPT !.samples = Append(p.samples, SampleNames(1))],
               [p EXCEPT !.samples = SubSeq(p.samples, 1, Len(p.samples) - 1)] }

FaultyPlots ==
    UNION { Faults(Plot(TabsOf(sh, Ones(sh)), cfg)) : sh \in RichShapes, cfg \in RichConfigs }

----------------------------------------------------------------------------
(* The state machine *)

NoErr == [kind |-> "", stage |-> ""]
NoLayout == [height |-> 0, barmode |-> "", traceorder |-> ""]

input == <<pconfig, cats_lists, samples_lists>>

Start(p) ==
    /\ pconfig = p.cfg
    /\ cats_lists = p.cats
    /\ samples_lists = p.samples
    /\ datasets = <<>>
    /\ layout = NoLayout
    /\ pc = "init"
    /\ err = NoErr
    /\ out = NoOut
    /\ trail = <<>>
    /\ built = <<>>

Init ==
    \/ \E sh \in RichShapes :
         \E vals \in [1..Cells(sh, Len(sh)) -> Values], cfg \in RichConfigs :
            Start(Plot(TabsOf(sh, vals), cfg))
    \/ \E p \in PlainPlots \cup EmptyPlots \cup FaultyPlots : Start(p)

\* An exception leaves BarPlot.__init__: no plot object is built
Raise(kind, stage) ==
    /\ pc' = "error"
    /\ err' = [kind |-> kind, stage |-> stage]
    /\ datasets' = <<>>
    /\ layout' = NoLayout
    /\ UNCHANGED <<input, out, trail, built>>

\* plot() and the start of BarPlot.__init__: the two lists must match, then
\* Dataset.create runs on every tab
Create ==
    /\ pc = "init"
    /\ IF Len(cats_lists) # Len(samples_lists) \/ Len(samples_lists) = 0
       THEN Raise("ValueError", "create")
       ELSE IF CreateError(cats_lists, samples_lists) # ""
       THEN Raise(CreateError(cats_lists, samples_lists), "create")
       ELSE /\ datasets' = [d \in 1..Len(cats_lists) |->
                               DatasetCreate(cats_lists[d], samples_lists[d])]
            /\ pc' = "created"
            /\ trail' = Append(trail, "create")
            /\ UNCHANGED <<input, layout, err, out, built>>

\* The barmode, the height and self.layout.update
SetLayout ==
    /\ pc = "created"
    /\ LET barmode == BarmodeOf(pconfig)
       IN  layout' = [height |-> PlotHeight(MaxNSamplesOf(samples_lists),
                                            MaxNCatsOf(datasets), barmode),
                      barmode |-> barmode,
                      traceorder |-> TraceOrderOf(barmode)]
    /\ pc' = "layout"
    /\ trail' = Append(trail, "layout")
    /\ UNCHANGED <<input, datasets, err, out, built>>

\* The loop that sets the allowed range of every dataset's value axis
SetRanges ==
    /\ pc = "layout"
    /\ IF \E d \in 1..Len(datasets) : RangeError(datasets[d], layout.barmode)
       THEN Raise("ValueError", "ranges")
       ELSE /\ datasets' = [d \in 1..Len(datasets) |->
                               WithRange(datasets[d], layout.barmode)]
            /\ pc' = "ranged"
            /\ trail' = Append(trail, "ranges")
            /\ UNCHANGED <<input, layout, err, out, built>>

\* The loop that expands the data with zeroes
Expand ==
    /\ pc = "ranged"
    /\ datasets' = [d \in 1..Len(datasets) |-> ExpandDataset(datasets[d])]
    /\ pc' = "completed"
    /\ trail' = Append(trail, "expand")
    /\ UNCHANGED <<input, layout, err, out, built>>

\* The loop that calculates and saves the percentages
Percentages ==
    /\ pc = "completed"
    /\ pconfig.add_pct_tab
    /\ IF \E d \in 1..Len(datasets) : PctError(datasets[d])
       THEN Raise("IndexError", "pct")
       ELSE /\ datasets' = [d \in 1..Len(datasets) |->
                               PctDataset(datasets[d], layout.barmode)]
            /\ pc' = "pct"
            /\ trail' = Append(trail, "pct")
            /\ UNCHANGED <<input, layout, err, out, built>>

\* the position from which the log stage, or the return, is next
AfterPct == pc = "pct" \/ (pc = "completed" /\ ~pconfig.add_pct_tab)

\* The loop that sorts the categories for the log switch
SortLog ==
    /\ AfterPct
    /\ pconfig.add_log_tab
    /\ datasets' = [d \in 1..Len(datasets) |-> SortDataset(datasets[d])]
    /\ layout' = [layout EXCEPT !.traceorder = "reversed"]
    /\ pc' = "log"
    /\ trail' = Append(trail, "log")
    /\ UNCHANGED <<input, err, out, built>>

\* BarPlot.__init__ returns
Return ==
    /\ pc = "log" \/ (AfterPct /\ ~pconfig.add_log_tab)
    /\ pc' = "done"
    /\ built' = datasets
    /\ UNCHANGED <<input, datasets, layout, err, out, trail>>

\* Dataset.create_figure on a dataset of the built plot
CreateFigure(d, is_pct) ==
    /\ pc = "done"
    /\ is_pct => pconfig.add_pct_tab
    /\ out' = [kind |-> IF is_pct THEN "figure_pct" ELSE "figure",
               dataset |-> d, content |-> FigureOf(datasets[d], is_pct)]
    /\ UNCHANGED <<input, datasets, layout, pc, err, trail, built>>

\* BarPlot.save_data_file on a dataset of the built plot
SaveDataFile(d) ==
    /\ pc = "done"
    /\ out' = [kind |-> "data_file", dataset |-> d, content |-> DataFileOf(datasets[d])]
    /\ UNCHANGED <<input, datasets, layout, pc, err, trail, built>>

Next ==
    \/ Create
    \/ SetLayout
    \/ SetRanges
    \/ Expand
    \/ Percentages
    \/ SortLog
    \/ Return
    \/ \E d \in 1..Len(datasets), is_pct \in BOOLEAN : CreateFigure(d, is_pct)
    \/ \E d \in 1..Len(datasets) : SaveDataFile(d)

Spec == Init /\ [][Next]_vars

----------------------------------------------------------------------------
(* Vocabulary of the properties *)

Tabs == 1..Len(datasets)
CatsOf(d) == 1..Len(datasets[d].cats)

HasLayout == pc \in {"layout", "ranged", "completed", "pct", "log", "done"}
HasRanges == pc \in {"ranged", "completed", "pct", "log", "done"}
IsCompleted == pc \in {"completed", "pct", "log", "done"}

\* the input is free of the errors of the normalisation stage
CountsMatch == Len(cats_lists) = Len(samples_lists)
Named == \A d \in 1..Len(cats_lists) : \A k \in 1..Len(cats_lists[d]) :
            cats_lists[d][k].name # NoName
Coloured == \A d \in 1..Len(cats_lists) : \A k \in 1..Len(cats_lists[d]) :
            cats_lists[d][k].color \in KnownColors
NonEmpty == \A d \in 1..Len(cats_lists) :
            Len(cats_lists[d]) >= 1 /\ (d <= Len(samples_lists) => Len(samples_lists[d]) >= 1)

Larger(a, b) == IF a >= b THEN a ELSE b
Smaller(a, b) == IF a <= b THEN a ELSE b
Clamp(x, lo, hi) == IF x < lo THEN lo ELSE IF x > hi THEN hi ELSE x

\* the barmodes by their names in the specification
Grouped == "group"
Stacked == "relative"

\* the sizes of the specification's layout sizing
Bars(n, c, mode) == IF mode = Stacked THEN n ELSE n * c
Step(bars) ==
    CASE bars >= 30 -> 5
      [] bars >= 20 /\ bars < 30 -> 4
      [] bars >= 10 /\ bars < 20 -> 3
      [] bars >= 5 /\ bars < 10 -> 2
      [] bars < 5 -> 1
Allowance(bars) == <<35, 30, 25, 20, 15>>[Step(bars)]
Base(n, c, mode) == Bars(n, c, mode) * Allowance(Bars(n, c, mode))
Legend(c) == 19 * c

StatedHeight(n, c, mode) ==
    Clamp(Larger(Base(n, c, mode), Legend(c)) + 140, 300, 2560)
CappedHeight(n, c, mode) ==
    Clamp(Smaller(660, Larger(Base(n, c, mode), Legend(c))) + 140, 300, 2560)

\* the largest length among the lists of ls
Longest(ls) ==
    CHOOSE m \in {Len(ls[i]) : i \in 1..Len(ls)} : \A i \in 1..Len(ls) : Len(ls[i]) <= m

----------------------------------------------------------------------------
(* C1 *)

\* C1 (as stated): when every category of every dataset has at most as many
\* values as there are samples, the construction does not fail and, once the
\* completion stage has run, every category has one value per sample: its
\* own values followed by zeros.
C1_ShortDataIsPadded ==
    ( /\ CountsMatch /\ Named /\ Coloured /\ NonEmpty
      /\ \A d \in 1..Len(cats_lists) : \A k \in 1..Len(cats_lists[d]) :
            Len(cats_lists[d][k].data) <= Len(samples_lists[d]) )
    => /\ pc # "error"
       /\ IsCompleted =>
            \A d \in Tabs : \A k \in CatsOf(d) :
                Len(datasets[d].cats[k].data) = Len(samples_lists[d])
       /\ pc = "completed" =>
            \A d \in Tabs : \A k \in CatsOf(d) :
                LET raw == cats_lists[d][k].data
                IN  datasets[d].cats[k].data
                      = raw \o [i \in 1..(Len(samples_lists[d]) - Len(raw)) |-> Zero]

----------------------------------------------------------------------------
(* C2 *)

\* C2 (as stated): the height of the layout is
\* clamp(max(base, legend) + 140, 300, 2560).
C2_HeightAsStated ==
    HasLayout =>
        layout.height = StatedHeight(MaxNSamplesOf(samples_lists),
                                     MaxNCatsOf(datasets), layout.barmode)

\* C2 (amended): the height of the layout is
\* clamp(min(660, max(base, legend)) + 140, 300, 2560): max(base, legend) is
\* capped at 660 before the margin of 140 is added.
C2_HeightCapped ==
    HasLayout =>
        layout.height = CappedHeight(MaxNSamplesOf(samples_lists),
                                     MaxNCatsOf(datasets), layout.barmode)

\* a plot whose bars ask for more than 660 pixels has been sized
C2_Witness ==
    /\ HasLayout
    /\ Base(MaxNSamplesOf(samples_lists), MaxNCatsOf(datasets), layout.barmode) > 660
    /\ layout.height = 800

----------------------------------------------------------------------------
(* C3 *)

\* C3 (as stated): with the category count and the barmode fixed, a plot of
\* fewer samples is never higher: height(n1) <= height(n2) for 1 <= n1 <= n2.
C3_HeightMonotone ==
    HasLayout =>
        \A n1 \in 1..MaxNSamplesOf(samples_lists) :
            PlotHeight(n1, MaxNCatsOf(datasets), layout.barmode) <= layout.height

\* C3 (amended): height(n1) <= height(n2) for 1 <= n1 <= n2 whose bar counts
\* fall in the same step of the per-bar allowance (below 5, 5 to 9, 10 to 19,
\* 20 to 29, 30 and more).
C3_HeightMonotoneWithinStep ==
    HasLayout =>
        LET n2 == MaxNSamplesOf(samples_lists)
            c == MaxNCatsOf(datasets)
        IN  \A n1 \in 1..n2 :
                Step(Bars(n1, c, layout.barmode)) = Step(Bars(n2, c, layout.barmode))
                => PlotHeight(n1, c, layout.barmode) <= layout.height

\* a plot that is strictly higher than one of fewer samples in the same step
C3_Witness ==
    /\ HasLayout
    /\ LET n2 == MaxNSamplesOf(samples_lists)
           c == MaxNCatsOf(datasets)
       IN  \E n1 \in 1..n2 :
              /\ n1 < n2
              /\ Step(Bars(n1, c, layout.barmode)) = Step(Bars(n2, c, layout.barmode))
              /\ PlotHeight(n1, c, layout.barmode) < layout.height

----------------------------------------------------------------------------
(* C4 *)

\* the values of a dataset that are not missing
Present(ds) ==
    { ds.cats[k].data[i] : k \in 1..Len(ds.cats), i \in 1..Len(ds.samples) } \ {NaN}
HasMissing(ds) ==
    \E k \in 1..Len(ds.cats) : \E i \in 1..Len(ds.cats[k].data) :
        IsNaN(ds.cats[k].data[i])

Greatest(S) == CHOOSE v \in S : \A w \in S : w[1] * v[2] <= v[1] * w[2]
Least(S) == CHOOSE v \in S : \A w \in S : v[1] * w[2] <= w[1] * v[2]

RECURSIVE PartSum(_, _, _, _)
\* the sum over the first k categories of the values of sample i that have
\* the given sign (1: strictly positive, -1: strictly negative)
PartSum(ds, i, sign, k) ==
    IF k = 0 THEN 0
    ELSE LET v == ds.cats[k].data[i]
         IN  PartSum(ds, i, sign, k - 1)
             + (IF ~IsNaN(v) /\ v[1] * sign > 0 THEN v[1] ELSE 0)

SignedSums(ds, sign) ==
    { Num(PartSum(ds, i, sign, Len(ds.cats))) : i \in 1..Len(ds.samples) }

RangeAsStated(ds) ==
    IF layout.barmode = Grouped
    THEN Present(ds) # {} =>
            /\ ds.xmax = Greatest(Present(ds))
            /\ ds.xmin = Least(Present(ds))
    ELSE /\ ds.xmax = Greatest(SignedSums(ds, 1))
         /\ ds.xmin = Least(SignedSums(ds, -1))

\* C4 (as stated): the allowed range of a dataset is, Grouped, from the
\* smallest to the largest single value of its categories and, Stacked, from
\* the smallest per-sample sum of the strictly negative values to the largest
\* per-sample sum of the strictly positive values.
C4_AllowedRange ==
    HasRanges => \A d \in Tabs : RangeAsStated(datasets[d])

\* C4 restricted to the datasets without a missing value
C4_AllowedRangeWithoutMissing ==
    HasRanges => \A d \in Tabs : ~HasMissing(datasets[d]) => RangeAsStated(datasets[d])

\* C4 restricted to the Stacked barmode
C4_AllowedRangeStacked ==
    (HasRanges /\ layout.barmode = Stacked) => \A d \in Tabs : RangeAsStated(datasets[d])

----------------------------------------------------------------------------
(* C5 *)

PctDone == pconfig.add_pct_tab /\ pc \in {"pct", "log", "done"}

\* the category of the built dataset d that came from the k-th input record
BuiltCat(d, k) ==
    LET at == CHOOSE j \in CatsOf(d) :
                  datasets[d].cats[j].name = WrapName(cats_lists[d][k].name)
    IN  datasets[d].cats[at]

RECURSIVE TotalUpTo(_, _, _)
\* the sum of the absolute values of the non-missing input values of sample i
\* over the first k categories of tab d
TotalUpTo(d, i, k) ==
    IF k = 0 THEN 0
    ELSE LET v == cats_lists[d][k].data[i]
         IN  TotalUpTo(d, i, k - 1)
             + (IF IsNaN(v) THEN 0 ELSE IF v[1] < 0 THEN 0 - v[1] ELSE v[1])

Total(d, i) == TotalUpTo(d, i, Len(cats_lists[d]))

\* p is (v / total) x 100, or 0 for a zero total
IsPercentOf(p, v, total) ==
    IF total = 0 THEN p = Zero
    ELSE IF IsNaN(v) THEN IsNaN(p)
    ELSE p[2] > 0 /\ p[1] * total = v[1] * 100 * p[2]

\* C5: once the percentages are computed, every category holds for every
\* sample 0 if the sample's total is zero and (value / total) x 100 otherwise,
\* the total being the sum of the absolute values of the non-missing values of
\* the sample; the absolute values of the category are the ones it was given.
C5_Percentages ==
    PctDone =>
        \A d \in Tabs : \A k \in 1..Len(cats_lists[d]) :
            LET raw == cats_lists[d][k].data
                cat == BuiltCat(d, k)
            IN  /\ cat.data = raw
                /\ Len(cat.data_pct) = Len(samples_lists[d])
                /\ \A i \in 1..Len(samples_lists[d]) :
                      IsPercentOf(cat.data_pct[i], raw[i], Total(d, i))

\* a sample with a missing value and a negative value whose percentage is
\* negative has been through the percentage stage
C5_Witness ==
    /\ pc = "pct"
    /\ \E d \in Tabs : \E i \in 1..Len(datasets[d].samples) :
          /\ \E k \in CatsOf(d) : IsNaN(datasets[d].cats[k].data[i])
          /\ \E k \in CatsOf(d) : /\ datasets[d].cats[k].data[i] = Num(-1)
                                  /\ datasets[d].cats[k].data_pct[i] = Num(-50)

----------------------------------------------------------------------------
(* C6 *)

LogDone == pconfig.add_log_tab /\ pc \in {"log", "done"}

\* the dataset d as the stages before the log stage leave it
BeforeLog(d) ==
    LET completed == ExpandDataset(WithRange(
                        DatasetCreate(cats_lists[d], samples_lists[d]), layout.barmode))
    IN  IF pconfig.add_pct_tab THEN PctDataset(completed, layout.barmode)
        ELSE completed

Count(cats, c) == Cardinality({k \in 1..Len(cats) : cats[k] = c})

IsPermutation(cats, before) ==
    /\ Len(cats) = Len(before)
    /\ \A k \in 1..Len(before) : Count(cats, before[k]) = Count(before, before[k])

\* the sum of the values of a category
CatTotal(cat) ==
    IF \E i \in 1..Len(cat.data) : IsNaN(cat.data[i]) THEN NaN
    ELSE PySum(cat.data)

Ascending(cats) ==
    \A i \in 1..Len(cats) : \A j \in 1..Len(cats) :
        i < j => ~Lt(CatTotal(cats[j]), CatTotal(cats[i]))

LogOrderAsStated(d) ==
    /\ IsPermutation(datasets[d].cats, BeforeLog(d).cats)
    /\ Ascending(datasets[d].cats)

\* C6 (as stated): with the log tab, the categories of every dataset are a
\* permutation of the ones it had and are in ascending order of their sums,
\* and the legend order is reversed; without it the order is as given.
C6_LogOrder ==
    /\ LogDone => /\ layout.traceorder = "reversed"
                  /\ \A d \in Tabs : LogOrderAsStated(d)
    /\ (~pconfig.add_log_tab /\ pc = "done") =>
            \A d \in Tabs : datasets[d].cats = BeforeLog(d).cats

\* C6 restricted to the datasets without a missing value
C6_LogOrderWithoutMissing ==
    /\ LogDone => /\ layout.traceorder = "reversed"
                  /\ \A d \in Tabs : ~HasMissing(datasets[d]) => LogOrderAsStated(d)
    /\ (~pconfig.add_log_tab /\ pc = "done") =>
            \A d \in Tabs : datasets[d].cats = BeforeLog(d).cats

----------------------------------------------------------------------------
(* C7 *)

\* the barmode is the one the height and the allowed ranges were computed with
BarmodeUsed(mode) ==
    /\ layout.barmode = mode
    /\ layout.height = CappedHeight(Longest(samples_lists),
                                    Longest([d \in Tabs |-> datasets[d].cats]), mode)
    /\ pc \in {"ranged", "completed", "pct"} =>
          \A d \in Tabs : /\ datasets[d].xmax = XMax(datasets[d], mode)
                          /\ datasets[d].xmin = XMin(datasets[d], mode)

\* C7 (as stated): Grouped when the stacking option is absent, "normal" or
\* "group", Stacked for any other value; the height and the ranges use it.
C7_BarmodeAsStated ==
    HasLayout =>
        BarmodeUsed(IF pconfig.stacking \in {StackingAbsent, "normal", "group"}
                    THEN Grouped ELSE Stacked)

\* C7 (amended): Grouped when the configuration has a stacking option and its
\* value is None, "normal" or "group"; Stacked when the configuration has no
\* stacking option or the option has any other value; the height and the
\* ranges use it.
C7_BarmodeByStackingKey ==
    HasLayout =>
        BarmodeUsed(IF pconfig.stacking \in {StackingNone, "normal", "group"}
                    THEN Grouped ELSE Stacked)

\* a plot without stacking option was built Stacked, with a height and a
\* range that the Grouped barmode would not have given
C7_Witness ==
    /\ pc = "ranged"
    /\ pconfig.stacking = StackingAbsent
    /\ layout.barmode = Stacked
    /\ layout.height # CappedHeight(Longest(samples_lists),
                                    Longest([d \in Tabs |-> datasets[d].cats]), Grouped)
    /\ \E d \in Tabs : datasets[d].xmax # XMax(datasets[d], Grouped)

----------------------------------------------------------------------------
(* C8 *)

Unnamed == ~Named
TooLong ==
    \E d \in 1..Len(cats_lists) : \E k \in 1..Len(cats_lists[d]) :
        d <= Len(samples_lists) /\ Len(cats_lists[d][k].data) > Len(samples_lists[d])

\* C8: a plot whose two lists differ in length, or with a category without
\* name, or with a category of more values than samples, is not built: the
\* construction ends in an error raised by the normalisation stage, no later
\* stage has run, and there is no dataset, no layout and no product.
C8_FailFast ==
    ((~CountsMatch \/ Unnamed \/ TooLong) /\ pc # "init") =>
        /\ pc = "error"
        /\ err.stage = "create"
        /\ err.kind \in {"ValueError", "AssertionError"}
        /\ trail = <<>>
        /\ datasets = <<>>
        /\ layout = NoLayout
        /\ out = NoOut
        /\ built = <<>>

\* a plot with a category of more values than samples, and no other defect,
\* has been refused
C8_Witness ==
    /\ pc = "error"
    /\ err = [kind |-> "AssertionError", stage |-> "create"]
    /\ CountsMatch /\ Named /\ Coloured /\ TooLong

----------------------------------------------------------------------------
(* C9 *)

\* The chart of every dataset is drawn with the height of self.layout: the
\* code sets no other height.
HeightOf(d) == layout.height

----------------------------------------------------------------------------
(* C10 *)

Ran(stage) == \E i \in 1..Len(trail) : trail[i] = stage
RanBefore(a, b) ==
    \E i \in 1..Len(trail) : \E j \in 1..Len(trail) :
        i < j /\ trail[i] = a /\ trail[j] = b

\* C10 (as stated): the stages run in the order normalisation, completion,
\* percentages (only with the percentage tab), log reordering (only with the
\* log tab); the allowed ranges are computed after the completion; once the
\* plot is built, no figure or data file changes its datasets.
C10_Pipeline ==
    /\ \A i \in 1..Len(trail) : \A j \in 1..Len(trail) :
          (i < j /\ trail[i] \in {"create", "expand", "pct", "log"}
                 /\ trail[j] \in {"create", "expand", "pct", "log"}) =>
            \/ trail[i] = "create"
            \/ trail[i] = "expand" /\ trail[j] \in {"pct", "log"}
            \/ trail[i] = "pct" /\ trail[j] = "log"
    /\ Ran("pct") => pconfig.add_pct_tab
    /\ Ran("log") => pconfig.add_log_tab
    /\ pc = "done" => /\ Ran("create") /\ Ran("expand")
                      /\ pconfig.add_pct_tab => Ran("pct")
                      /\ pconfig.add_log_tab => Ran("log")
                      /\ datasets = built
    /\ Ran("ranges") => RanBefore("expand", "ranges")

\* C10 without the order of the ranges and the completion
C10_PipelineButRanges ==
    /\ \A i \in 1..Len(trail) : \A j \in 1..Len(trail) :
          (i < j /\ trail[i] \in {"create", "expand", "pct", "log"}
                 /\ trail[j] \in {"create", "expand", "pct", "log"}) =>
            \/ trail[i] = "create"
            \/ trail[i] = "expand" /\ trail[j] \in {"pct", "log"}
            \/ trail[i] = "pct" /\ trail[j] = "log"
    /\ Ran("pct") => pconfig.add_pct_tab
    /\ Ran("log") => pconfig.add_log_tab
    /\ pc = "done" => /\ Ran("create") /\ Ran("expand")
                      /\ pconfig.add_pct_tab => Ran("pct")
                      /\ pconfig.add_log_tab => Ran("log")
                      /\ datasets = built
    /\ Ran("expand") => RanBefore("ranges", "expand")

====
